---- MODULE Spec2Model ----
(***************************************************************************)
(* A model of the FLAC decoder of package flac (decode.go, utf8.go).       *)
(*                                                                         *)
(* The byte source is a sequence of bits (most significant bit of each     *)
(* byte first) whose length is a multiple of 8.  A position is a number of *)
(* consumed bits.  NewDecoder and Decoder.Next are the two operations; the *)
(* functions they call are operators that take the source and a position   *)
(* and return a record with the error, the new position and the values.    *)
(*                                                                         *)
(* Errors are the strings of the Go code; "EOF" is io.EOF and              *)
(* "unexpected EOF" is io.ErrUnexpectedEOF.  A panic is a result of its    *)
(* own: panic |-> TRUE.                                                    *)
(***************************************************************************)
EXTENDS Integers, Sequences, FiniteSets, TLC

VARIABLES
    src,    \* the whole input, a sequence of bits
    off,    \* d.r: the number of bits of src consumed so far
    pc,     \* "start" before NewDecoder, "ready" with a decoder,
            \* "failed" when NewDecoder returned nil, "panic" after a panic
    d,      \* the Decoder: n, StreamInfo, VorbisComment
    ret,    \* what the last call returned
    h,      \* the frame header Next's call of readFrameHeader returned
    arg,    \* the values a function that is called on its own is given
    res     \* what that function returned

vars == <<src, off, pc, d, ret, h, arg, res>>

Min(a, b) == IF a < b THEN a ELSE b

----------------------------------------------------------------------------
(* github.com/eaburns/bit: the bit reader.                                 *)
(*                                                                         *)
(* Every function that reads takes the result of the read before it as an  *)
(* argument, so that each step of the Go code is one operator.             *)

RECURSIVE Val(_, _, _)
\* The n bits after position pos as an unsigned number, first bit first.
Val(s, pos, n) ==
    IF n = 0 THEN 0
    ELSE IF n = 1 THEN s[pos + 1]
    ELSE Val(s, pos, n \div 2) * (2 ^ (n - (n \div 2)))
         + Val(s, pos + (n \div 2), n - (n \div 2))

\* The error of a read that finds too few bits before end: io.EOF when
\* nothing is left at all, io.ErrUnexpectedEOF when the value is cut short.
ReadErr(pos, end) == IF pos >= end THEN "EOF" ELSE "unexpected EOF"

\* bit.Reader.Read(n) at position pos of a source that ends at bit end.
Read(s, pos, n, end) ==
    IF pos + n <= end
    THEN [err |-> "", v |-> Val(s, pos, n), pos |-> pos + n]
    ELSE [err |-> ReadErr(pos, end), v |-> 0, pos |-> end]

RECURSIVE ReadFields(_, _, _, _)

\* The fields rest with the field v before them.
fieldsAfter(v, rest) ==
    [err |-> rest.err, fs |-> <<v>> \o rest.fs, pos |-> rest.pos]

\* ReadFields after the read r of one field: the fields of widths follow.
readFieldsNext(s, r, widths, end) ==
    IF r.err # "" THEN [err |-> r.err, fs |-> <<>>, pos |-> r.pos]
    ELSE fieldsAfter(r.v, ReadFields(s, r.pos, widths, end))

\* bit.Reader.ReadFields(widths...): successive reads.
ReadFields(s, pos, widths, end) ==
    IF widths = <<>> THEN [err |-> "", fs |-> <<>>, pos |-> pos]
    ELSE readFieldsNext(s, Read(s, pos, Head(widths), end), Tail(widths), end)

\* The k bytes after position pos.
Bytes(s, pos, k) == [i \in 1..k |-> Val(s, pos + 8 * (i - 1), 8)]

\* io.ReadFull of k bytes at the byte boundary pos.
ReadFull(s, pos, k) ==
    IF pos + 8 * k <= Len(s)
    THEN [err |-> "", bytes |-> Bytes(s, pos, k), pos |-> pos + 8 * k]
    ELSE [err |-> ReadErr(pos, Len(s)), bytes |-> <<>>, pos |-> Len(s)]

\* The byte boundary at or after pos: a bit reader that is dropped takes
\* the rest of its last byte with it.
Align(pos) == ((pos + 7) \div 8) * 8

----------------------------------------------------------------------------
(* Metadata: decode.go lines 17-223.                                       *)

magic == <<102, 76, 97, 67>>

streamInfoType == 0
vorbisCommentType == 4
invalidBlockType == 127

md5Size == 16

\* checkMagic after io.ReadFull returned m.
checkMagicBytes(m) ==
    IF m.err # "" THEN [err |-> m.err, pos |-> m.pos]
    ELSE IF m.bytes # magic THEN [err |-> "Bad fLaC magic header", pos |-> m.pos]
    ELSE [err |-> "", pos |-> m.pos]

checkMagic(s, pos) == checkMagicBytes(ReadFull(s, pos, 4))

\* readMetaDataHeader after ReadFields returned fr.
metaDataHeader(fr) ==
    IF fr.err # ""
    THEN [err |-> fr.err, last |-> FALSE, kind |-> 0, n |-> 0, pos |-> fr.pos]
    ELSE [err |-> "", last |-> fr.fs[1] = 1, kind |-> fr.fs[2],
          n |-> fr.fs[3], pos |-> fr.pos]

\* The limit of the reader readMetaDataHeader reads its 32 bits from:
\* io.LimitedReader counts N in bytes.
headerSize == 32

readMetaDataHeader(s, pos) ==
    metaDataHeader(ReadFields(s, pos, <<1, 7, 24>>,
                              Min(Len(s), pos + 8 * headerSize)))

\* The StreamInfo of the fields fs and the checksum bytes md5.  The 36 bits
\* of the number of samples are read as two halves of 18 bits and
\* TotalSamples (an int in the source) is kept as the pair of them, high
\* half first; the halves never meet a byte boundary, so the order of
\* failures is that of one read of 36 bits.
newStreamInfo(fs, md5) ==
    [MinBlock      |-> fs[1],
     MaxBlock      |-> fs[2],
     MinFrame      |-> fs[3],
     MaxFrame      |-> fs[4],
     SampleRate    |-> fs[5],
     NChannels     |-> fs[6] + 1,
     BitsPerSample |-> fs[7] + 1,
     TotalSamples  |-> <<fs[8], fs[9]>>,
     MD5           |-> md5]

\* readStreamInfo after ioutil.ReadAll returned csum bytes.
streamInfoChecksum(info, csum) ==
    IF csum # md5Size
    THEN [err |-> "Bad MD5 checksum size", panic |-> TRUE, info |-> <<>>]
    ELSE IF info.SampleRate = 0
    THEN [err |-> "Bad sample rate", panic |-> FALSE, info |-> <<info>>]
    ELSE [err |-> "", panic |-> FALSE, info |-> <<info>>]

\* readStreamInfo after ReadFields returned fr.
streamInfoFields(s, fr, end) ==
    IF fr.err # ""
    THEN [err |-> fr.err, panic |-> FALSE, info |-> <<>>]
    ELSE streamInfoChecksum(
             newStreamInfo(fr.fs, Bytes(s, fr.pos,
                                        Min((end - fr.pos) \div 8, md5Size))),
             (end - fr.pos) \div 8)

\* readStreamInfo on a reader limited to the bits before end.  info is <<>>
\* for nil and <<StreamInfo>> otherwise.
readStreamInfo(s, pos, end) ==
    streamInfoFields(s, ReadFields(s, pos, <<16, 16, 24, 24, 20, 3, 5, 18, 18>>,
                                   end), end)

\* int(binary.LittleEndian.Uint32(data)).  A value of 2^31 or more is more
\* than any length it is compared with, and is kept as 2^31 - 1.
Uint32(data) ==
    IF data[4] >= 128 THEN 2147483647
    ELSE data[1] + 256 * data[2] + 65536 * data[3] + 16777216 * data[4]

\* vorbisString after the length n has been read from data.
vorbisStringOf(data, n) ==
    IF n > Len(data) - 4
    THEN [panic |-> TRUE, str |-> <<>>, data |-> <<>>]
    ELSE [panic |-> FALSE, str |-> SubSeq(data, 5, 4 + n),
          data |-> SubSeq(data, 5 + n, Len(data))]

\* vorbisString: panics (index out of range, slice bounds out of range)
\* when data is shorter than the length field or than the length it holds.
vorbisString(data) ==
    IF Len(data) < 4
    THEN [panic |-> TRUE, str |-> <<>>, data |-> <<>>]
    ELSE vorbisStringOf(data, Uint32(data))

RECURSIVE vorbisComments(_, _, _)

\* The loop of readVorbisComment after vorbisString returned v.
vorbisCommentsNext(v, n, acc) ==
    IF v.panic THEN [panic |-> TRUE, comments |-> acc]
    ELSE vorbisComments(v.data, n, Append(acc, v.str))

\* The loop of readVorbisComment: n more strings from data.
vorbisComments(data, n, acc) ==
    IF n = 0 THEN [panic |-> FALSE, comments |-> acc]
    ELSE vorbisCommentsNext(vorbisString(data), n - 1, acc)

\* readVorbisComment after its loop returned cs.
vorbisCommentOf(vendor, cs) ==
    IF cs.panic
    THEN [err |-> "index out of range", panic |-> TRUE, cmnt |-> <<>>]
    ELSE [err |-> "", panic |-> FALSE,
          cmnt |-> <<[Vendor |-> vendor, Comments |-> cs.comments]>>]

\* readVorbisComment after vorbisString returned the vendor string.
vorbisVendor(vendor) ==
    IF vendor.panic \/ Len(vendor.data) < 4
    THEN [err |-> "index out of range", panic |-> TRUE, cmnt |-> <<>>]
    ELSE vorbisCommentOf(vendor.str,
             vorbisComments(SubSeq(vendor.data, 5, Len(vendor.data)),
                            Uint32(vendor.data), <<>>))

\* readVorbisComment on a reader limited to the bits before end.
readVorbisComment(s, pos, end) ==
    vorbisVendor(vorbisString(Bytes(s, pos, (end - pos) \div 8)))

RECURSIVE readMetaData(_, _, _)

\* meta.StreamInfo, err = readStreamInfo(header)
withStreamInfo(meta, si) ==
    [err |-> si.err, panic |-> si.panic,
     meta |-> [meta EXCEPT !.StreamInfo = si.info]]

\* meta.VorbisComment, err = readVorbisComment(header)
withVorbisComment(meta, vc) ==
    [err |-> vc.err, panic |-> vc.panic,
     meta |-> [meta EXCEPT !.VorbisComment = vc.cmnt]]

\* The switch of readMetaData on the kind of a block that is not invalid.
readBlock(s, pos, end, kind, meta) ==
    IF kind = streamInfoType
    THEN withStreamInfo(meta, readStreamInfo(s, pos, end))
    ELSE IF kind = vorbisCommentType
    THEN withVorbisComment(meta, readVorbisComment(s, pos, end))
    ELSE [err |-> "", panic |-> FALSE, meta |-> meta]

\* readMetaData after the switch returned b: the rest of the block, up to
\* end, is junked, and the loop goes on unless the block is the last.
readMetaDataJunk(s, last, end, b) ==
    IF b.panic \/ b.err # ""
    THEN [err |-> b.err, panic |-> b.panic, meta |-> b.meta, pos |-> end]
    ELSE IF last
    THEN [err |-> "", panic |-> FALSE, meta |-> b.meta, pos |-> end]
    ELSE readMetaData(s, end, b.meta)

\* readMetaData after readMetaDataHeader returned hd; the block ends at end.
readMetaDataBlock(s, hd, end, meta) ==
    IF hd.kind = invalidBlockType
    THEN [err |-> "Invalid metedata block type (127)",
          panic |-> FALSE, meta |-> meta, pos |-> hd.pos]
    ELSE readMetaDataJunk(s, hd.last, end,
                          readBlock(s, hd.pos, end, hd.kind, meta))

\* One turn of the loop of readMetaData, with the header hd it read.
readMetaDataLoop(s, hd, meta) ==
    IF hd.err # ""
    THEN [err |-> "Failed to read metadata header: " \o hd.err,
          panic |-> FALSE, meta |-> meta, pos |-> hd.pos]
    ELSE readMetaDataBlock(s, hd, Min(Len(s), hd.pos + 8 * hd.n), meta)

\* The loop of readMetaData from position pos with the metadata meta read
\* so far.
readMetaData(s, pos, meta) ==
    readMetaDataLoop(s, readMetaDataHeader(s, pos), meta)

NoMetaData == [StreamInfo |-> <<>>, VorbisComment |-> <<>>]

\* NewDecoder after readMetaData returned md.
newDecoderMetaData(md) ==
    IF md.panic \/ md.err # "" THEN md
    ELSE IF md.meta.StreamInfo = <<>>
    THEN [err |-> "Missing STREAMINFO header", panic |-> FALSE,
          meta |-> md.meta, pos |-> md.pos]
    ELSE md

\* NewDecoder after checkMagic returned m.
newDecoderMagic(s, m) ==
    IF m.err # ""
    THEN [err |-> m.err, panic |-> FALSE, meta |-> NoMetaData, pos |-> m.pos]
    ELSE newDecoderMetaData(readMetaData(s, m.pos, NoMetaData))

\* NewDecoder: the result, and the metadata of the decoder when there is
\* one.
NewDecoderResult(s, pos) == newDecoderMagic(s, checkMagic(s, pos))

----------------------------------------------------------------------------
(* utf8.go                                                                 *)

RECURSIVE utf8Cont(_, _, _, _)

\* The loop of utf8Decode after the read b of a continuation byte.
utf8ContByte(s, b, left, v) ==
    IF b.err = "EOF" THEN [err |-> "unexpected EOF", v |-> 0, pos |-> b.pos]
    ELSE IF b.err # "" THEN [err |-> b.err, v |-> 0, pos |-> b.pos]
    ELSE IF b.v \div 64 # 2
    THEN [err |-> "Bad UTF-8 encoding in frame header", v |-> 0, pos |-> b.pos]
    ELSE utf8Cont(s, b.pos, left, v * 64 + (b.v % 64))

\* The loop of utf8Decode: left more continuation bytes onto v.
utf8Cont(s, pos, left, v) ==
    IF left = 0 THEN [err |-> "", v |-> v, pos |-> pos]
    ELSE utf8ContByte(s, Read(s, pos, 8, Len(s)), left - 1, v)

\* left after the switch of utf8Decode on the first byte b0 (of 128 or
\* more): a byte that matches no case leaves left at 0.
utf8Left(b0) ==
    IF b0 \div 32 = 6 THEN 1
    ELSE IF b0 \div 16 = 14 THEN 2
    ELSE IF b0 \div 8 = 30 THEN 3
    ELSE IF b0 \div 4 = 62 THEN 4
    ELSE IF b0 \div 2 = 126 THEN 5
    ELSE 0

\* v after the switch of utf8Decode on the first byte b0 (of 128 or more).
utf8First(b0) ==
    IF b0 \div 32 = 6 THEN b0 % 32
    ELSE IF b0 \div 16 = 14 THEN b0 % 16
    ELSE IF b0 \div 8 = 30 THEN b0 % 8
    ELSE IF b0 \div 4 = 62 THEN b0 % 4
    ELSE IF b0 \div 2 = 126 THEN b0 % 2
    ELSE 0

\* utf8Decode after the read r of the first byte.
utf8Lead(s, r) ==
    IF r.err # "" THEN [err |-> r.err, v |-> 0, pos |-> r.pos]
    ELSE IF r.v \div 128 = 0 THEN [err |-> "", v |-> r.v % 128, pos |-> r.pos]
    ELSE utf8Cont(s, r.pos, utf8Left(r.v), utf8First(r.v))

utf8Decode(s, pos) == utf8Lead(s, Read(s, pos, 8, Len(s)))

----------------------------------------------------------------------------
(* The checksums (verifyCRC8, verifyCRC16).                                *)

RECURSIVE Xor(_, _, _)
\* a XOR b on w bits.
Xor(a, b, w) ==
    IF w = 0 THEN 0
    ELSE ((a + b) % 2) + 2 * Xor(a \div 2, b \div 2, w - 1)

RECURSIVE crcBits(_, _, _, _)

\* One shift of the register p of width w with polynomial poly.
crcShift(p, w, poly) ==
    IF p \div (2 ^ (w - 1)) = 1
    THEN Xor((2 * p) % (2 ^ w), poly, w)
    ELSE 2 * p

\* The register c of width w after k more shifts with polynomial poly.
crcBits(c, k, w, poly) ==
    IF k = 0 THEN c
    ELSE crcShift(crcBits(c, k - 1, w, poly), w, poly)

RECURSIVE crc(_, _, _, _, _)

\* The register c of width w after the byte b has gone through it.
crcByte(c, b, w, poly) ==
    Xor((c % (2 ^ (w - 8))) * 256,
        crcBits(Xor(c \div (2 ^ (w - 8)), b, 8) * (2 ^ (w - 8)), 8, w, poly),
        w)

\* The CRC of width w and polynomial poly, initial value 0, over the bytes
\* of s from position pos up to end, most significant bit first.
crc(s, pos, end, w, poly) ==
    IF end <= pos THEN 0
    ELSE crcByte(crc(s, pos, end - 8, w, poly), Val(s, end - 8, 8), w, poly)

crc8Poly == 7
crc16Poly == 32773

\* verifyCRC8(raw): the last byte of raw is the CRC-8 of the bytes before it.
verifyCRC8(s, from, to) ==
    IF crc(s, from, to - 8, 8, crc8Poly) = Val(s, to - 8, 8)
    THEN "" ELSE "Bad checksum"

\* verifyCRC16(raw): the last two bytes of raw are the CRC-16 of the bytes
\* before them.
verifyCRC16(s, from, to) ==
    IF crc(s, from, to - 16, 16, crc16Poly) = Val(s, to - 16, 16)
    THEN "" ELSE "Bad checksum"

----------------------------------------------------------------------------
(* The frame header: decode.go lines 339-531.                              *)

leftSide == 8
rightSide == 9
midSide == 10

nChannels(c) == IF c < 8 THEN c + 1 ELSE 2

\* frameHeader.bitsPerSample(subframe), subframe counted from 0.
bitsPerSample(hd, subframe) ==
    IF \/ hd.channelAssignment = leftSide /\ subframe = 1
       \/ hd.channelAssignment = rightSide /\ subframe = 0
       \/ hd.channelAssignment = midSide /\ subframe = 1
    THEN hd.sampleSize + 1
    ELSE hd.sampleSize

\* The tables, indexed from 0 in the code and here by code + 1.
blockSizes ==
    <<-1, 192, 576, 1152, 2304, 4608, -1, -1,
      256, 512, 1024, 2048, 4096, 8192, 16384, 23768>>

sampleRates ==
    <<-1, 88200, 176400, 192000, 8000, 16000, 220500, 24000,
      32000, 44100, 48000, 96000, -1, -1, -1, -1>>

sampleSizes == <<-1, 8, 12, -1, 16, 20, 24, -1>>

syncCode == 16382

NoHeader ==
    [variableSize |-> FALSE, blockSize |-> 0, sampleRate |-> 0,
     channelAssignment |-> 0, sampleSize |-> 0, number |-> 0, crc8 |-> 0]

\* The result of readFrameHeader when it returns nil and err.
HeaderErr(e, pos) == [err |-> e, ok |-> FALSE, h |-> NoHeader, pos |-> pos]

\* A value read from the header: the read r with its value scaled by mul
\* and moved by add.
headerValue(r, mul, add) ==
    [err |-> r.err, v |-> r.v * mul + add, pos |-> r.pos]

\* The block size switch of readFrameHeader, from position pos.
readBlockSize(s, pos, blockSize) ==
    IF blockSize = 0
    THEN [err |-> "Bad block size in frame header", v |-> 0, pos |-> pos]
    ELSE IF blockSize = 6 THEN headerValue(Read(s, pos, 8, Len(s)), 1, 1)
    ELSE IF blockSize = 7 THEN headerValue(Read(s, pos, 16, Len(s)), 1, 1)
    ELSE [err |-> "", v |-> blockSizes[blockSize + 1], pos |-> pos]

\* The sample rate switch of readFrameHeader, from position pos.
readSampleRate(s, pos, sampleRate, info) ==
    IF sampleRate = 0
    THEN [err |-> "", v |-> info.SampleRate, pos |-> pos]
    ELSE IF sampleRate = 12 THEN headerValue(Read(s, pos, 8, Len(s)), 1, 0)
    ELSE IF sampleRate = 13 THEN headerValue(Read(s, pos, 16, Len(s)), 1, 0)
    ELSE IF sampleRate = 14 THEN headerValue(Read(s, pos, 16, Len(s)), 10, 0)
    ELSE [err |-> "", v |-> sampleRates[sampleRate + 1], pos |-> pos]

\* readFrameHeader after the read c8 of the checksum byte: the header hd
\* is returned with the verdict of verifyCRC8 on the bytes read since from.
headerCRC8(s, from, hd, c8) ==
    IF c8.err # "" THEN HeaderErr(c8.err, c8.pos)
    ELSE [err |-> verifyCRC8(s, from, c8.pos), ok |-> TRUE,
          h |-> [hd EXCEPT !.crc8 = c8.v], pos |-> c8.pos]

\* readFrameHeader after the sample rate switch returned sr.
headerSampleRate(s, from, hd, sr) ==
    IF sr.err # "" THEN HeaderErr(sr.err, sr.pos)
    ELSE headerCRC8(s, from, [hd EXCEPT !.sampleRate = sr.v],
                    Read(s, sr.pos, 8, Len(s)))

\* readFrameHeader after the block size switch returned bs.
headerBlockSize(s, from, hd, sampleRate, info, bs) ==
    IF bs.err # "" THEN HeaderErr(bs.err, bs.pos)
    ELSE headerSampleRate(s, from, [hd EXCEPT !.blockSize = bs.v],
                          readSampleRate(s, bs.pos, sampleRate, info))

\* readFrameHeader after utf8Decode returned num.
headerNumber(s, from, hd, fs, info, num) ==
    IF num.err # "" THEN HeaderErr(num.err, num.pos)
    ELSE headerBlockSize(s, from, [hd EXCEPT !.number = num.v], fs[4], info,
                         readBlockSize(s, num.pos, fs[3]))

\* The header after the fields fs: variableSize, channelAssignment and
\* sampleSize are set.
headerOfFields(fs, info) ==
    [NoHeader EXCEPT !.variableSize = (fs[2] = 1),
                     !.channelAssignment = fs[5],
                     !.sampleSize = IF fs[6] = 0 THEN info.BitsPerSample
                                    ELSE sampleSizes[fs[6] + 1]]

\* A variant of headerFields in which the sample size code is validated
\* before the channel assignment: the two checks of decode.go:458 and
\* decode.go:465 exchanged.
headerFieldsSampleSizeFirst(s, from, pos, fs, info) ==
    IF fs[1] # 0 \/ fs[7] # 0
    THEN HeaderErr("Invalid reserved value in frame header", pos)
    ELSE IF fs[6] \in {3, 7}
    THEN HeaderErr("Bad sample size in frame header", pos)
    ELSE IF fs[5] > midSide THEN HeaderErr("Bad channel assignment", pos)
    ELSE headerNumber(s, from, headerOfFields(fs, info), fs, info,
                      utf8Decode(s, pos))

\* readFrameHeader after the fields fs have been read, up to position pos.
headerFields(s, from, pos, fs, info) ==
    IF fs[1] # 0 \/ fs[7] # 0
    THEN HeaderErr("Invalid reserved value in frame header", pos)
    ELSE IF fs[5] > midSide THEN HeaderErr("Bad channel assignment", pos)
    ELSE IF fs[6] \in {3, 7}
    THEN HeaderErr("Bad sample size in frame header", pos)
    ELSE headerNumber(s, from, headerOfFields(fs, info), fs, info,
                      utf8Decode(s, pos))

\* readFrameHeader after ReadFields returned fr.
headerReadFields(s, from, fr, info) ==
    IF fr.err # "" THEN HeaderErr(fr.err, fr.pos)
    ELSE headerFields(s, from, fr.pos, fr.fs, info)

\* readFrameHeader after the read sync of the synchronize code.
headerSync(s, from, sync, info) ==
    IF sync.err = "" /\ sync.v # syncCode
    THEN HeaderErr("Failed to find the synchronize code for the next frame",
                   sync.pos)
    ELSE IF sync.err # "" THEN HeaderErr(sync.err, sync.pos)
    ELSE headerReadFields(s, from,
                          ReadFields(s, sync.pos, <<1, 1, 4, 4, 4, 3, 1>>,
                                     Len(s)), info)

\* readFrameHeader(r, info) with r at position pos.  ok says that a header
\* was returned (with err the checksum's verdict); otherwise nil was.
readFrameHeader(s, pos, info) ==
    headerSync(s, pos, Read(s, pos, 14, Len(s)), info)

----------------------------------------------------------------------------
(* Subframes: decode.go lines 533-789.  Samples are int32 in the code: the *)
(* sums, differences and products of predict and fixChannels wrap modulo   *)
(* 2^32 (Add32, Sub32, Mul32).  signExtend and riceDecode are given values *)
(* of at most 31 bits, which their conversions to int32 leave unchanged.   *)

subFrameConstant == 0
subFrameVerbatim == 1
subFrameFixed == 8
subFrameLPC == 32

signExtend(v, bits) ==
    IF bits >= 1 /\ (v \div (2 ^ (bits - 1))) % 2 = 1 THEN v - 2 ^ bits ELSE v

RECURSIVE skipWasted(_, _)

\* The loop over the wasted-bits count after the read k of one bit.
skipWastedBit(s, k) ==
    IF k.err # "" THEN [err |-> k.err, pos |-> k.pos]
    ELSE IF k.v = 0 THEN skipWasted(s, k.pos)
    ELSE [err |-> "", pos |-> k.pos]

\* The loop of readSubFrameHeader over the wasted-bits count: bits are read
\* up to and including the first 1.
skipWasted(s, pos) == skipWastedBit(s, Read(s, pos, 1, Len(s)))

\* A result of the type switch of readSubFrameHeader.
subType(e, p, kind, order) ==
    [err |-> e, panic |-> p, kind |-> kind, order |-> order]

\* A variant of subFrameType that takes every code 001xxx as a fixed
\* predictor of order xxx.
subFrameTypeAnyOrder(k) ==
    IF k = 0 THEN subType("", FALSE, subFrameConstant, 0)
    ELSE IF k = 1 THEN subType("", FALSE, subFrameVerbatim, 0)
    ELSE IF k \div 2 = 1 \/ k \div 4 = 1 \/ k \div 16 = 1
    THEN subType("Bad subframe type", FALSE, 0, 0)
    ELSE IF k \div 8 = 1 THEN subType("", FALSE, subFrameFixed, k % 8)
    ELSE IF k \div 32 = 1 THEN subType("", FALSE, subFrameLPC, (k % 32) + 1)
    ELSE subType("Impossible!", TRUE, 0, 0)

\* The type switch of readSubFrameHeader on the 6-bit code k.
subFrameType(k) ==
    IF k = 0 THEN subType("", FALSE, subFrameConstant, 0)
    ELSE IF k = 1 THEN subType("", FALSE, subFrameVerbatim, 0)
    ELSE IF k \div 2 = 1 \/ k \div 4 = 1 \/ k \div 16 = 1
    THEN subType("Bad subframe type", FALSE, 0, 0)
    ELSE IF k \div 8 = 1
    THEN IF k % 8 > 4
         THEN subType("Bad subframe type", FALSE, 0, 0)
         ELSE subType("", FALSE, subFrameFixed, k % 8)
    ELSE IF k \div 32 = 1 THEN subType("", FALSE, subFrameLPC, (k % 32) + 1)
    ELSE subType("Impossible!", TRUE, 0, 0)

\* What readSubFrameHeader returns, with the position it leaves.
subHeader(e, p, kind, order, pos) ==
    [err |-> e, panic |-> p, kind |-> kind, order |-> order, pos |-> pos]

\* readSubFrameHeader after the loop over the wasted-bits count returned un.
subHeaderUnary(ty, un) ==
    IF un.err # "" THEN subHeader(un.err, FALSE, 0, 0, un.pos)
    ELSE subHeader("", FALSE, ty.kind, ty.order, un.pos)

\* readSubFrameHeader after the read w of the wasted-bits flag.
subHeaderWasted(s, ty, w) ==
    IF w.err # "" THEN subHeader(w.err, FALSE, 0, 0, w.pos)
    ELSE IF w.v = 1 THEN subHeaderUnary(ty, skipWasted(s, w.pos))
    ELSE subHeader("", FALSE, ty.kind, ty.order, w.pos)

\* readSubFrameHeader after the type switch returned ty at position pos.
subHeaderType(s, ty, pos) ==
    IF ty.panic \/ ty.err # "" THEN subHeader(ty.err, ty.panic, 0, 0, pos)
    ELSE subHeaderWasted(s, ty, Read(s, pos, 1, Len(s)))

\* readSubFrameHeader after the read k of the type code.
subHeaderCode(s, k) ==
    IF k.err # "" THEN subHeader(k.err, FALSE, 0, 0, k.pos)
    ELSE subHeaderType(s, subFrameType(k.v), k.pos)

\* readSubFrameHeader after the read pad of the padding bit.
subHeaderPad(s, pad) ==
    IF pad.err # "" THEN subHeader(pad.err, FALSE, 0, 0, pad.pos)
    ELSE subHeaderCode(s, Read(s, pad.pos, 6, Len(s)))

readSubFrameHeader(s, pos) == subHeaderPad(s, Read(s, pos, 1, Len(s)))

fixedCoeffs == <<<<1>>, <<2, -1>>, <<3, -3, 1>>, <<4, -6, 4, -1>>>>

RECURSIVE readInts(_, _, _, _)

\* The integers rest with the integer v before them.
intsAfter(v, rest) ==
    [err |-> rest.err, is |-> <<v>> \o rest.is, pos |-> rest.pos]

\* The loop of readInts after the read w: n more integers follow.
readIntsNext(s, w, n, bits) ==
    IF w.err # "" THEN [err |-> w.err, is |-> <<>>, pos |-> w.pos]
    ELSE intsAfter(signExtend(w.v, bits), readInts(s, w.pos, n, bits))

\* readInts(br, n, bits)
readInts(s, pos, n, bits) ==
    IF n = 0 THEN [err |-> "", is |-> <<>>, pos |-> pos]
    ELSE readIntsNext(s, Read(s, pos, bits, Len(s)), n - 1, bits)

\* a + b on int32, as Go computes it: the sum wraps modulo 2^32.
Add32(a, b) ==
    IF a > 0 /\ b > 0 /\ a > 2147483647 - b
    THEN (a - 2147483647 - 1) + (b - 2147483647 - 1)
    ELSE IF a < 0 /\ b < 0 /\ a < (-2147483647 - 1) - b
    THEN (a + 2147483647 + 1) + (b + 2147483647 + 1)
    ELSE a + b

\* a - b on int32: the difference wraps modulo 2^32.
Sub32(a, b) ==
    IF b = -2147483647 - 1 THEN Add32(Add32(a, 2147483647), 1)
    ELSE Add32(a, -b)

\* The int32 whose two's complement has the 16-bit halves hi and lo.
Int32Of(hi, lo) == (IF hi >= 32768 THEN hi - 65536 ELSE hi) * 65536 + lo

\* The low 16 bits of x * y, and the bits above them, for x and y of 16 bits.
Lo16Mul(x, y) ==
    ((x % 256) * y + (((x \div 256) * y) % 256) * 256) % 65536
Hi16Mul(x, y) ==
    ((x \div 256) * y) \div 256
    + ((x % 256) * y + (((x \div 256) * y) % 256) * 256) \div 65536

\* a * b on int32: the low 32 bits of the product, from the 16-bit halves
\* of the two's complements of a and b.
Mul32(a, b) ==
    Int32Of((Hi16Mul(a % 65536, b % 65536)
             + Lo16Mul((a \div 65536) % 65536, b % 65536)
             + Lo16Mul(a % 65536, (b \div 65536) % 65536)) % 65536,
            Lo16Mul(a % 65536, b % 65536))

RECURSIVE predictInner(_, _, _, _, _, _, _)

\* The body of the loop over the coefficients for sample i, sum being the
\* int32 sum with the term of coefficient j added: data[i] is assigned
\* after every term.
predictTerm(coeffs, data, residual, shift, i, j, sum) ==
    predictInner(coeffs,
                 [data EXCEPT ![i] = Add32(residual, sum \div (2 ^ shift))],
                 residual, shift, i, j + 1, sum)

\* The loop over the coefficients for sample i (1-based), from coefficient
\* j on, sum being what the coefficients before j added up to.
predictInner(coeffs, data, residual, shift, i, j, sum) ==
    IF j > Len(coeffs) THEN data
    ELSE predictTerm(coeffs, data, residual, shift, i, j,
                     Add32(sum, Mul32(coeffs[j], data[i - j])))

RECURSIVE predictOuter(_, _, _, _, _, _)
\* The loop of predict over the samples from i (1-based) on.
predictOuter(coeffs, nwarm, residual, shift, data, i) ==
    IF i > Len(data) THEN data
    ELSE predictOuter(coeffs, nwarm, residual, shift,
                      predictInner(coeffs, data, residual[i - nwarm], shift,
                                   i, 1, 0),
                      i + 1)

predict(coeffs, warm, residual, shift) ==
    predictOuter(coeffs, Len(warm), residual, shift,
                 warm \o [i \in 1..Len(residual) |-> 0], Len(warm) + 1)

RECURSIVE riceZeros(_, _, _)

\* The unary part of one Rice code after the read b of one bit.
riceZerosBit(s, b, q) ==
    IF b.err # "" THEN [err |-> b.err, q |-> q, pos |-> b.pos]
    ELSE IF b.v = 0 THEN riceZeros(s, b.pos, q + 1)
    ELSE [err |-> "", q |-> q, pos |-> b.pos]

\* The unary part of one Rice code: q counts the 0 bits before the first 1.
riceZeros(s, pos, q) == riceZerosBit(s, Read(s, pos, 1, Len(s)), q)

\* A variant of riceSigned that takes the low bit as the sign of a
\* magnitude: u>>1, negated when u is odd.
riceSignMagnitude(u) == IF u % 2 = 0 THEN u \div 2 ELSE -(u \div 2)

\* int32(u>>1) ^ -int32(u&1)
riceSigned(u) == IF u % 2 = 0 THEN u \div 2 ELSE -(u \div 2) - 1

\* What riceDecode and decodeResiduals return: the numbers ns, or an error
\* or a panic.
Residue(e, p, ns, pos) == [err |-> e, panic |-> p, ns |-> ns, pos |-> pos]

RECURSIVE riceLoop(_, _, _, _, _)

\* One number of riceDecode after the read r of its M low bits, q being
\* its unary part.
riceBinary(s, r, q, n, M, ns) ==
    IF r.err # "" THEN Residue(r.err, FALSE, <<>>, r.pos)
    ELSE riceLoop(s, r.pos, n, M, Append(ns, riceSigned(r.v + q * (2 ^ M))))

\* One number of riceDecode after its unary part z has been read.
riceUnary(s, z, n, M, ns) ==
    IF z.err # "" THEN Residue(z.err, FALSE, <<>>, z.pos)
    ELSE riceBinary(s, Read(s, z.pos, M, Len(s)), z.q, n, M, ns)

\* The loop of riceDecode: n more numbers after ns.
riceLoop(s, pos, n, M, ns) ==
    IF n = 0 THEN Residue("", FALSE, ns, pos)
    ELSE riceUnary(s, riceZeros(s, pos, 0), n - 1, M, ns)

\* riceDecode(br, n, M): make([]int32, n) panics when n is negative.
riceDecode(s, pos, n, M) ==
    IF n < 0 THEN Residue("makeslice: len out of range", TRUE, <<>>, pos)
    ELSE riceLoop(s, pos, n, M, <<>>)

\* n of decodeResiduals: the number of residuals of partition i.
partitionSize(blkSize, predO, partO, i) ==
    IF partO = 0 THEN blkSize - predO
    ELSE IF i > 0 THEN blkSize \div (2 ^ partO)
    ELSE (blkSize \div (2 ^ partO)) - predO

RECURSIVE residualPartitions(_, _, _, _, _, _, _, _)

\* The loop of decodeResiduals after riceDecode returned r for partition i.
partitionRice(s, r, blkSize, predO, bits, partO, i, residue) ==
    IF r.panic \/ r.err # "" THEN Residue(r.err, r.panic, <<>>, r.pos)
    ELSE residualPartitions(s, r.pos, blkSize, predO, bits, partO, i + 1,
                            residue \o r.ns)

\* The loop of decodeResiduals after the read M of the parameter of
\* partition i.
partitionParameter(s, M, blkSize, predO, bits, partO, i, residue) ==
    IF M.err # "" THEN Residue(M.err, FALSE, <<>>, M.pos)
    ELSE IF (bits = 4 /\ M.v = 15) \/ (bits = 5 /\ M.v = 31)
    THEN Residue("Unsupported, unencoded residuals", TRUE, <<>>, M.pos)
    ELSE partitionRice(s, riceDecode(s, M.pos,
                                     partitionSize(blkSize, predO, partO, i),
                                     M.v),
                       blkSize, predO, bits, partO, i, residue)

\* The loop of decodeResiduals from partition i on.
residualPartitions(s, pos, blkSize, predO, bits, partO, i, residue) ==
    IF i >= 2 ^ partO THEN Residue("", FALSE, residue, pos)
    ELSE partitionParameter(s, Read(s, pos, bits, Len(s)), blkSize, predO,
                            bits, partO, i, residue)

\* decodeResiduals after the read partO of the partition order.
residualOrder(s, partO, blkSize, predO, bits) ==
    IF partO.err # "" THEN Residue(partO.err, FALSE, <<>>, partO.pos)
    ELSE residualPartitions(s, partO.pos, blkSize, predO, bits, partO.v,
                            0, <<>>)

\* decodeResiduals after the read method of the coding method.
residualMethod(s, method, blkSize, predO) ==
    IF method.err # "" THEN Residue(method.err, FALSE, <<>>, method.pos)
    ELSE IF method.v > 1
    THEN Residue("Bad residual method", FALSE, <<>>, method.pos)
    ELSE residualOrder(s, Read(s, method.pos, 4, Len(s)), blkSize, predO,
                       IF method.v = 0 THEN 4 ELSE 5)

decodeResiduals(s, pos, blkSize, predO) ==
    residualMethod(s, Read(s, pos, 2, Len(s)), blkSize, predO)

\* What a subframe decoder returns: the samples, or an error or a panic.
SubFrame(e, p, data, pos) == [err |-> e, panic |-> p, data |-> data, pos |-> pos]

\* decodeFixedSubFrame after decodeResiduals returned residual.
fixedResidual(warm, residual, predO) ==
    IF residual.panic \/ residual.err # ""
    THEN SubFrame(residual.err, residual.panic, <<>>, residual.pos)
    ELSE IF predO = 0 THEN SubFrame("", FALSE, residual.ns, residual.pos)
    ELSE SubFrame("", FALSE,
                  predict(fixedCoeffs[predO], warm, residual.ns, 0),
                  residual.pos)

\* decodeFixedSubFrame after readInts returned the warm-up samples.
fixedWarm(s, warm, blkSize, predO) ==
    IF warm.err # "" THEN SubFrame(warm.err, FALSE, <<>>, warm.pos)
    ELSE fixedResidual(warm.is, decodeResiduals(s, warm.pos, blkSize, predO),
                       predO)

decodeFixedSubFrame(s, pos, sampleSize, blkSize, predO) ==
    fixedWarm(s, readInts(s, pos, predO, sampleSize), blkSize, predO)

\* decodeLPCSubFrame after decodeResiduals returned residual.
lpcResidual(warm, coeffs, shift, residual) ==
    IF residual.panic \/ residual.err # ""
    THEN SubFrame(residual.err, residual.panic, <<>>, residual.pos)
    ELSE SubFrame("", FALSE, predict(coeffs, warm, residual.ns, shift),
                  residual.pos)

\* decodeLPCSubFrame after readInts returned the coefficients.
lpcCoeffs(s, warm, coeffs, shift, blkSize, predO) ==
    IF coeffs.err # "" THEN SubFrame(coeffs.err, FALSE, <<>>, coeffs.pos)
    ELSE lpcResidual(warm, coeffs.is, shift,
                     decodeResiduals(s, coeffs.pos, blkSize, predO))

\* decodeLPCSubFrame after the read sh of the shift; prec is the precision
\* of the coefficients in bits.
lpcShift(s, warm, prec, sh, blkSize, predO) ==
    IF sh.err # "" THEN SubFrame(sh.err, FALSE, <<>>, sh.pos)
    ELSE IF signExtend(sh.v, 5) < 0
    THEN SubFrame("What does a negative shift mean?", TRUE, <<>>, sh.pos)
    ELSE lpcCoeffs(s, warm, readInts(s, sh.pos, predO, prec),
                   signExtend(sh.v, 5), blkSize, predO)

\* decodeLPCSubFrame after the read prec of the precision.
lpcPrecision(s, warm, prec, blkSize, predO) ==
    IF prec.err # "" THEN SubFrame(prec.err, FALSE, <<>>, prec.pos)
    ELSE IF prec.v = 15
    THEN SubFrame("Bad LPC predictor precision", FALSE, <<>>, prec.pos)
    ELSE lpcShift(s, warm, prec.v + 1, Read(s, prec.pos, 5, Len(s)),
                  blkSize, predO)

\* decodeLPCSubFrame after readInts returned the warm-up samples.
lpcWarm(s, warm, blkSize, predO) ==
    IF warm.err # "" THEN SubFrame(warm.err, FALSE, <<>>, warm.pos)
    ELSE lpcPrecision(s, warm.is, Read(s, warm.pos, 4, Len(s)), blkSize,
                      predO)

decodeLPCSubFrame(s, pos, sampleSize, blkSize, predO) ==
    lpcWarm(s, readInts(s, pos, predO, sampleSize), blkSize, predO)

\* The CONSTANT case of Next after the read v of the value.
constantValue(v, bps, blkSize) ==
    IF v.err # "" THEN SubFrame(v.err, FALSE, <<>>, v.pos)
    ELSE SubFrame("", FALSE, [j \in 1..blkSize |-> signExtend(v.v, bps)],
                  v.pos)

\* The CONSTANT case of Next.
decodeConstant(s, pos, bps, blkSize) ==
    constantValue(Read(s, pos, bps, Len(s)), bps, blkSize)

\* The VERBATIM case of Next after its loop read vs.
verbatimValues(vs) ==
    IF vs.err # "" THEN SubFrame(vs.err, FALSE, <<>>, vs.pos)
    ELSE SubFrame("", FALSE, vs.is, vs.pos)

\* The VERBATIM case of Next.
decodeVerbatim(s, pos, bps, blkSize) ==
    verbatimValues(readInts(s, pos, blkSize, bps))

\* The switch of Next on what readSubFrameHeader returned, sh.
subFrameSwitch(s, sh, bps, blkSize) ==
    IF sh.panic \/ sh.err # "" THEN SubFrame(sh.err, sh.panic, <<>>, sh.pos)
    ELSE IF sh.kind = subFrameConstant
    THEN decodeConstant(s, sh.pos, bps, blkSize)
    ELSE IF sh.kind = subFrameVerbatim
    THEN decodeVerbatim(s, sh.pos, bps, blkSize)
    ELSE IF sh.kind = subFrameFixed
    THEN decodeFixedSubFrame(s, sh.pos, bps, blkSize, sh.order)
    ELSE IF sh.kind = subFrameLPC
    THEN decodeLPCSubFrame(s, sh.pos, bps, blkSize, sh.order)
    ELSE SubFrame("Unimplemented", FALSE, <<>>, sh.pos)

\* One iteration of the channel loop of Next: subframe ch (from 0).
decodeSubFrame(s, pos, hd, ch) ==
    subFrameSwitch(s, readSubFrameHeader(s, pos), bitsPerSample(hd, ch),
                   hd.blockSize)

RECURSIVE decodeSubFrames(_, _, _, _, _)

\* The channel loop of Next after subframe ch has been decoded as sf.
nextChannel(s, sf, hd, ch, data) ==
    IF sf.panic \/ sf.err # "" THEN sf
    ELSE decodeSubFrames(s, sf.pos, hd, ch + 1, Append(data, sf.data))

\* The channel loop of Next from channel ch (from 0) on.
decodeSubFrames(s, pos, hd, ch, data) ==
    IF ch >= nChannels(hd.channelAssignment) THEN SubFrame("", FALSE, data, pos)
    ELSE nextChannel(s, decodeSubFrame(s, pos, hd, ch), hd, ch, data)

\* Go's x / 2 on integers: truncation toward zero.
Half(x) == IF x >= 0 THEN x \div 2 ELSE (x + 1) \div 2

\* fixChannels, left/side: data[1][i] = d0 - data[1][i]
leftSideRight(d0, d1) == Sub32(d0, d1)

\* fixChannels, right/side: data[0][i] += d1
rightSideLeft(d0, d1) == Add32(d0, d1)

\* A variant of midSideTwice without the low bit of side: mid *= 2 alone.
midSideTwiceNoParity(mid, side) == Add32(mid, mid)

\* fixChannels, mid/side: mid after mid *= 2 and mid |= (side & 1).
midSideTwice(mid, side) == Add32(mid, mid) + (side % 2)

\* fixChannels, mid/side: data[0][i] = (mid + side) / 2
midSideLeft(mid, side) == Half(Add32(mid, side))

\* fixChannels, mid/side: data[1][i] = (mid - side) / 2
midSideRight(mid, side) == Half(Sub32(mid, side))

\* fixChannels(data, assign).  Indexing the other channel past its end
\* panics.
fixChannels(data, assign) ==
    IF assign = leftSide
    THEN IF Len(data[2]) < Len(data[1])
         THEN [panic |-> TRUE, data |-> data]
         ELSE [panic |-> FALSE,
               data |-> [data EXCEPT ![2] =
                   [i \in 1..Len(data[2]) |->
                       IF i <= Len(data[1])
                       THEN leftSideRight(data[1][i], data[2][i])
                       ELSE data[2][i]]]]
    ELSE IF assign = rightSide
    THEN IF Len(data[1]) < Len(data[2])
         THEN [panic |-> TRUE, data |-> data]
         ELSE [panic |-> FALSE,
               data |-> [data EXCEPT ![1] =
                   [i \in 1..Len(data[1]) |->
                       IF i <= Len(data[2])
                       THEN rightSideLeft(data[1][i], data[2][i])
                       ELSE data[1][i]]]]
    ELSE IF assign = midSide
    THEN IF Len(data[2]) < Len(data[1])
         THEN [panic |-> TRUE, data |-> data]
         ELSE [panic |-> FALSE,
               data |-> <<[i \in 1..Len(data[1]) |->
                              midSideLeft(midSideTwice(data[1][i], data[2][i]),
                                          data[2][i])],
                          [i \in 1..Len(data[2]) |->
                              IF i <= Len(data[1])
                              THEN midSideRight(midSideTwice(data[1][i], data[2][i]),
                                                data[2][i])
                              ELSE data[2][i]]>>]
    ELSE [panic |-> FALSE, data |-> data]

\* What Next returns: err "EOF" is io.EOF itself.  hr is what its call of
\* readFrameHeader returned and pos is where it leaves d.r.
NextReturn(e, p, data, hr, pos) ==
    [err |-> e, panic |-> p, data |-> data, hr |-> hr, pos |-> pos]

\* Next after verifyCRC16 returned crcErr; fix is what fixChannels makes of
\* the data.
nextChecked(hr, crcErr, fix, pos) ==
    IF crcErr # "" THEN NextReturn(crcErr, FALSE, <<>>, hr, pos)
    ELSE IF fix.panic
    THEN NextReturn("index out of range", TRUE, <<>>, hr, pos)
    ELSE NextReturn("", FALSE, fix.data, hr, pos)

\* Next after io.ReadFull returned c16, the checksum of the frame.
nextCRC16(s, from, hr, data, c16) ==
    IF c16.err # "" THEN NextReturn(c16.err, FALSE, <<>>, hr, c16.pos)
    ELSE nextChecked(hr, verifyCRC16(s, from, c16.pos),
                     fixChannels(data, hr.h.channelAssignment), c16.pos)

\* Next after its channel loop returned sfs.
nextSubFrames(s, from, hr, sfs) ==
    IF sfs.panic \/ sfs.err # ""
    THEN NextReturn(sfs.err, sfs.panic, <<>>, hr, Align(sfs.pos))
    ELSE nextCRC16(s, from, hr, sfs.data, ReadFull(s, Align(sfs.pos), 2))

\* Next after readFrameHeader returned hr.
nextHeader(s, from, hr) ==
    IF hr.err = "EOF" THEN NextReturn("EOF", FALSE, <<>>, hr, Align(hr.pos))
    ELSE IF hr.err # ""
    THEN NextReturn("Failed to read the frame header: " \o hr.err, FALSE,
                    <<>>, hr, Align(hr.pos))
    ELSE nextSubFrames(s, from, hr, decodeSubFrames(s, hr.pos, hr.h, 0, <<>>))

\* Decoder.Next with d.r at position pos.
NextResult(s, pos, info) == nextHeader(s, pos, readFrameHeader(s, pos, info))

----------------------------------------------------------------------------
(* The inputs: byte streams written bit by bit, as an encoder writes them. *)

\* The most blocks of metadata in a stream of the metadata inputs.
MaxBlocks == 2
\* The largest block size of the frames with subframes.
MaxBlk == 3
\* The largest residual partition order of the frames with subframes.
MaxPartO == 2
\* The most calls of Next on one decoder.
MaxCalls == 2

\* v as n bits, first bit first.
Bits(v, n) == [i \in 1..n |-> (v \div (2 ^ (n - i))) % 2]
\* The signed v as n bits in two's complement.
SBits(v, n) == Bits(IF v < 0 THEN v + 2 ^ n ELSE v, n)
Zeros(n) == [i \in 1..n |-> 0]
\* bits, padded with zeros to a whole number of bytes.
PadToByte(bits) == bits \o Zeros((8 - (Len(bits) % 8)) % 8)
\* The first k bytes of bits (all of it when it is shorter).
TakeBytes(bits, k) == SubSeq(bits, 1, Min(Len(bits), 8 * k))

RECURSIVE Cat(_)
\* The sequences of seqs, one after the other.
Cat(seqs) == IF seqs = <<>> THEN <<>> ELSE Head(seqs) \o Cat(Tail(seqs))

RECURSIVE SeqsUpTo(_, _)
\* The sequences over S of length 1..n.
SeqsUpTo(S, n) ==
    IF n = 0 THEN {}
    ELSE {<<x>> : x \in S}
         \cup {<<x>> \o t : x \in S, t \in SeqsUpTo(S, n - 1)}

MagicBits == Cat([i \in 1..4 |-> Bits(magic[i], 8)])

\* A metadata block: its header and, of body, the first have bytes.
MetaBlock(last, kind, len, body, have) ==
    Bits(last, 1) \o Bits(kind, 7) \o Bits(len, 24) \o TakeBytes(body, have)

\* A STREAMINFO body (34 bytes) with the given rate and the 3-bit and 5-bit
\* fields of the channel count and the sample size.
StreamInfoBody(rate, chf, bpsf) ==
    Bits(16, 16) \o Bits(4096, 16) \o Bits(0, 24) \o Bits(0, 24)
    \o Bits(rate, 20) \o Bits(chf, 3) \o Bits(bpsf, 5) \o Zeros(28) \o Bits(1, 8)
    \o Zeros(8 * md5Size)

\* A Vorbis string: the length, little endian, and that many bytes 'a'.
VorbisStr(n) == Bits(n, 8) \o Zeros(24) \o Cat([i \in 1..n |-> Bits(97, 8)])
\* A VORBIS_COMMENT body: a vendor of 2 bytes, and k comments of 1 byte.
VorbisBody(k) ==
    VorbisStr(2) \o Bits(k, 8) \o Zeros(24) \o Cat([i \in 1..k |-> VorbisStr(1)])

\* The sample rates of the inputs.
Rates == {0, 1, 44100, 1048575}

\* Every STREAMINFO field content with these rates, as the only block.
StreamInfoInputs ==
    { MagicBits \o MetaBlock(1, streamInfoType, 34, StreamInfoBody(r, c, b), 34) :
        r \in Rates, c \in 0..7, b \in 0..31 }

\* One block of each kind whose declared length and whose body vary: the
\* body is cut short or runs on (a body of 36 bytes, of which the block
\* declares len and the stream holds have).
OneBlockInputs ==
    { MagicBits \o MetaBlock(last, kind, len,
                             (IF kind = vorbisCommentType THEN VorbisBody(1)
                              ELSE StreamInfoBody(44100, 1, 7)) \o Zeros(16), have) :
        last \in {0, 1}, kind \in {streamInfoType, 1, vorbisCommentType, invalidBlockType},
        len \in {0, 3, 4, 11, 15, 17, 18, 19, 33, 34, 35, 36, 3158064},
        have \in {0, 3, 11, 15, 17, 18, 20, 34, 36} }

\* The blocks the streams of several blocks are made of, without the last
\* flag (kind, length and body).
BlockKinds ==
    { <<streamInfoType, 34, StreamInfoBody(44100, 1, 7)>>,
      <<streamInfoType, 34, StreamInfoBody(0, 1, 7)>>,
      <<streamInfoType, 34, StreamInfoBody(8000, 0, 2)>>,
      <<1, 1, Zeros(8)>>,
      <<1, 0, <<>>>>,
      <<3, 2, Zeros(16)>>,
      <<vorbisCommentType, 17, VorbisBody(1)>>,
      <<vorbisCommentType, 12, VorbisBody(0)>>,
      <<invalidBlockType, 0, <<>>>> }

\* The blocks of bs one after the other; the last flag is set on the block
\* numbered lastAt (on none when lastAt is 0).
BlockSeq(bs, lastAt) ==
    Cat([i \in 1..Len(bs) |->
           MetaBlock(IF i = lastAt THEN 1 ELSE 0, bs[i][1], bs[i][2], bs[i][3],
                     bs[i][2])])

SeveralBlockInputs ==
    { MagicBits \o BlockSeq(bs, lastAt) :
        bs \in SeqsUpTo(BlockKinds, MaxBlocks), lastAt \in 0..MaxBlocks }

\* Streams that do not start with the magic, or end inside it.
MagicInputs ==
    { Cat([i \in 1..6 |-> Bits(<<102, 111, 111, 98, 97, 114>>[i], 8)]),
      <<>>, TakeBytes(MagicBits, 3), MagicBits }

MetaInputs ==
    StreamInfoInputs \cup OneBlockInputs \cup SeveralBlockInputs \cup MagicInputs


\* What every input with frames starts with: the magic and a last STREAMINFO
\* block of 44100 Hz, 2 channels, 8 bits per sample.
Preamble ==
    MagicBits \o MetaBlock(1, streamInfoType, 34, StreamInfoBody(44100, 1, 7), 34)

\* The fields of a frame header: the 4 fixed bytes, the number, the tails.
HeaderBits(f) ==
    Bits(f.sync, 14) \o <<f.res1, f.blocking>> \o Bits(f.bs, 4) \o Bits(f.sr, 4)
    \o Bits(f.ch, 4) \o Bits(f.ss, 3) \o <<f.res2>> \o f.num \o f.bstail \o f.srtail

\* A header with its CRC-8 byte, right or wrong.
WithCRC8(b, good) ==
    LET c == crc(b, 0, Len(b), 8, crc8Poly) IN
    b \o Bits(IF good THEN c ELSE (c + 1) % 256, 8)

\* A header with nothing wrong: block size 192, 44.1 kHz, 1 channel, 8 bits
\* per sample, frame number 0.
Header0 ==
    [sync |-> syncCode, res1 |-> 0, blocking |-> 0, bs |-> 1, sr |-> 9, ch |-> 0,
     ss |-> 1, res2 |-> 0, num |-> Bits(0, 8), bstail |-> <<>>, srtail |-> <<>>]

\* Frame numbers: 1 byte; 2 bytes; 2 bytes and 3 bytes with a byte that is
\* no continuation byte.
Numbers ==
    { Bits(0, 8), Bits(194, 8) \o Bits(162, 8), Bits(194, 8) \o Bits(0, 8),
      Bits(226, 8) \o Bits(130, 8) \o Bits(192, 8) }

\* Headers with every combination of right and wrong fields and checksum.
OrderInputs ==
    { Preamble \o WithCRC8(HeaderBits([Header0 EXCEPT !.sync = sy, !.res1 = r1,
                                           !.res2 = r2, !.ch = c, !.ss = z,
                                           !.num = nm, !.bs = b]), good) :
        sy \in {syncCode, 16383}, r1 \in {0, 1}, r2 \in {0, 1}, c \in {1, 11, 15},
        z \in {1, 3, 7}, nm \in Numbers, b \in {0, 1}, good \in BOOLEAN }

\* The tails after the number, by block-size code and by sample-rate code.
BlockSizeTails(code) ==
    IF code = 6 THEN {Bits(v, 8) : v \in {0, 1, 255}}
    ELSE IF code = 7 THEN {Bits(v, 16) : v \in {0, 255, 256, 65535}}
    ELSE {<<>>}

SampleRateTails(code) ==
    IF code = 12 THEN {Bits(v, 8) : v \in {0, 44, 255}}
    ELSE IF code = 13 THEN {Bits(v, 16) : v \in {0, 44100, 65535}}
    ELSE IF code = 14 THEN {Bits(v, 16) : v \in {0, 4410, 65535}}
    ELSE {<<>>}

\* Headers with every block-size code and every sample-rate code.
CodeInputs ==
    { Preamble \o WithCRC8(HeaderBits([Header0 EXCEPT !.bs = b, !.sr = r,
                                          !.bstail = bt, !.srtail = rt,
                                          !.blocking = v]), TRUE) :
        <<b, bt>> \in UNION {{<<x, y>> : y \in BlockSizeTails(x)} : x \in 0..15},
        <<r, rt>> \in UNION {{<<x, y>> : y \in SampleRateTails(x)} : x \in 0..15},
        v \in {0, 1} }

\* A header of 11 bytes (2 for the number, 2 for each tail) cut after each
\* of its bytes, and a whole header after which the stream ends.
TruncInputs ==
    { TakeBytes(Preamble \o WithCRC8(HeaderBits([Header0 EXCEPT !.bs = 7, !.sr = 13,
                     !.num = Bits(194, 8) \o Bits(162, 8),
                     !.bstail = Bits(2, 16), !.srtail = Bits(8000, 16)]), TRUE),
                42 + k) : k \in 0..11 }

HeaderInputs == OrderInputs \cup CodeInputs \cup TruncInputs

\* A frame with its CRC-16, right or wrong.
WithCRC16(b, good) ==
    LET c == crc(b, 0, Len(b), 16, crc16Poly) IN
    b \o Bits(IF good THEN c ELSE (c + 1) % 65536, 16)

\* The samples and the residuals an encoder is given: sample j, and
\* residual j for a Rice parameter M (small ones for parameter 0, large
\* ones otherwise).
SampleAt(j) == IF j % 2 = 1 THEN j ELSE -j
ResidualAt(j, M) ==
    IF M = 0 THEN (j % 3) - 1
    ELSE IF j % 2 = 1 THEN 200 + j ELSE -(200 + j)

\* The Rice code of x with parameter M: the folded value's high part in
\* unary, a 1, and its M low bits.
RiceBits(x, M) ==
    LET u == IF x >= 0 THEN 2 * x ELSE -2 * x - 1 IN
    Zeros(u \div (2 ^ M)) \o <<1>> \o Bits(u % (2 ^ M), M)

\* A subframe to encode: the 6-bit type code, the value of a CONSTANT
\* subframe, the residual coding method, the partition order, the Rice
\* parameter (-1 for the escape code), the field of the LPC precision, the
\* LPC shift and the number of wasted bits.
Sub0 ==
    [code |-> subFrameVerbatim, v |-> 0, method |-> 0, partO |-> 0, M |-> 0,
     prec |-> 3, shift |-> 0, waste |-> 0]

\* The predictor order a type code stands for.
OrderOf(code) ==
    IF code >= subFrameLPC THEN code - subFrameLPC + 1
    ELSE IF code >= subFrameFixed THEN code - subFrameFixed
    ELSE 0

\* The number of residuals of partition i (from 0) of a block of blk samples.
PartLen(blk, order, partO, i) ==
    LET n == IF partO = 0 THEN blk - order
             ELSE IF i > 0 THEN blk \div (2 ^ partO)
             ELSE (blk \div (2 ^ partO)) - order
    IN  IF n < 0 THEN 0 ELSE n

\* Partition i (from 0): the parameter and, unless it is the escape code,
\* the residuals.
PartitionBits(sf, blk, i) ==
    IF sf.M < 0 THEN Bits(2 ^ (4 + sf.method) - 1, 4 + sf.method)
    ELSE Bits(sf.M, 4 + sf.method)
         \o Cat([j \in 1..PartLen(blk, OrderOf(sf.code), sf.partO, i) |->
                    RiceBits(ResidualAt(i + j, sf.M), sf.M)])

\* The residual of a FIXED or LPC subframe (nothing after a method that
\* does not exist).
ResidualBits(sf, blk) ==
    Bits(sf.method, 2)
    \o (IF sf.method > 1 THEN <<>>
        ELSE Bits(sf.partO, 4)
             \o Cat([i \in 1..(2 ^ sf.partO) |-> PartitionBits(sf, blk, i - 1)]))

\* The warm-up samples of a FIXED or LPC subframe.
WarmBits(sf, bps) ==
    Cat([j \in 1..OrderOf(sf.code) |-> SBits(SampleAt(j), bps)])

\* What follows the header of the subframe sf.
SubFrameBody(sf, bps, blk) ==
    IF sf.code = subFrameConstant THEN SBits(sf.v, bps)
    ELSE IF sf.code = subFrameVerbatim
    THEN Cat([j \in 1..blk |-> SBits(SampleAt(j), bps)])
    ELSE IF sf.code \in 8..12
    THEN WarmBits(sf, bps) \o ResidualBits(sf, blk)
    ELSE IF sf.code >= subFrameLPC
    THEN WarmBits(sf, bps) \o Bits(sf.prec, 4) \o SBits(sf.shift, 5)
         \o Cat([j \in 1..OrderOf(sf.code) |-> SBits(j, sf.prec + 1)])
         \o ResidualBits(sf, blk)
    ELSE <<>>

\* A subframe: the padding bit, the type code, the wasted-bits flag with
\* the count in unary, and the body.
SubFrameBits(sf, bps, blk) ==
    <<0>> \o Bits(sf.code, 6)
    \o (IF sf.waste = 0 THEN <<0>> ELSE <<1>> \o Zeros(sf.waste - 1) \o <<1>>)
    \o SubFrameBody(sf, bps, blk)

ConstantSubs ==
    { [Sub0 EXCEPT !.code = subFrameConstant, !.v = v, !.waste = w] :
        v \in {5, -3}, w \in {0, 2} }

VerbatimSubs == { [Sub0 EXCEPT !.waste = w] : w \in {0, 1} }

FixedSubs ==
    { [Sub0 EXCEPT !.code = subFrameFixed + o, !.method = m, !.partO = p, !.M = M] :
        o \in 0..4, m \in {0, 1}, p \in 0..MaxPartO, M \in {0, 4, -1} }
    \cup { [Sub0 EXCEPT !.code = subFrameFixed, !.method = 2] }

LPCSubs ==
    { [Sub0 EXCEPT !.code = subFrameLPC + o - 1, !.prec = q, !.shift = sh,
                   !.partO = p, !.M = M] :
        o \in {1, 2}, q \in {3, 15}, sh \in {0, 1, -1}, p \in 0..MaxPartO,
        M \in {0, -1} }

\* Type codes that are reserved, a FIXED order of 5 and an LPC order of 32.
OtherSubs == { [Sub0 EXCEPT !.code = c] : c \in {2, 13, 63} }

\* The sample size of subframe c (from 1) of a frame of these inputs, whose
\* sample-size code is 0 (of the STREAMINFO block: 8), 1 (8) or 2 (12).
SubBps(assign, ss, c) ==
    (IF ss = 2 THEN 12 ELSE 8)
    + (IF (assign = leftSide /\ c = 2) \/ (assign = rightSide /\ c = 1)
          \/ (assign = midSide /\ c = 2)
       THEN 1 ELSE 0)

\* A frame: the header (the block size in an 8-bit tail), the subframes,
\* the padding to a whole byte and the CRC-16.
FrameBits(assign, ss, blk, subs, good) ==
    WithCRC16(
        PadToByte(
            WithCRC8(HeaderBits([Header0 EXCEPT !.bs = 6, !.ch = assign,
                                     !.ss = ss, !.bstail = Bits(blk - 1, 8)]),
                     TRUE)
            \o Cat([c \in 1..Len(subs) |->
                       SubFrameBits(subs[c], SubBps(assign, ss, c), blk)])),
        good)

\* One frame of one channel, with every subframe above.
OneChannelInputs ==
    { Preamble \o FrameBits(0, 1, blk, <<sf>>, TRUE) :
        blk \in 1..MaxBlk,
        sf \in ConstantSubs \cup VerbatimSubs \cup FixedSubs \cup LPCSubs
               \cup OtherSubs }

\* Frames of every sample-size code of these inputs, with a right and with
\* a wrong CRC-16.
ChecksumInputs ==
    { Preamble \o FrameBits(0, ss, blk, <<sf>>, good) :
        ss \in {0, 1, 2}, blk \in 1..MaxBlk,
        sf \in ConstantSubs \cup VerbatimSubs, good \in BOOLEAN }

\* The subframes of the frames of two channels.
PairSubs ==
    { [Sub0 EXCEPT !.code = subFrameConstant, !.v = 5],
      Sub0,
      [Sub0 EXCEPT !.code = subFrameFixed + 1],
      [Sub0 EXCEPT !.code = subFrameFixed, !.partO = 1] }

\* Frames of two channels, independent and stereo-decorrelated.
TwoChannelInputs ==
    { Preamble \o FrameBits(assign, 1, blk, <<s1, s2>>, TRUE) :
        assign \in {1, leftSide, rightSide, midSide}, blk \in 1..MaxBlk,
        s1 \in PairSubs, s2 \in PairSubs }

\* Two frames, and one frame cut after each of its bytes (it has 12).
StreamInputs ==
    { Preamble \o FrameBits(0, 1, blk, <<Sub0>>, TRUE)
               \o FrameBits(0, 1, blk, <<sf>>, TRUE) :
        blk \in 1..MaxBlk, sf \in ConstantSubs \cup VerbatimSubs }
    \cup { TakeBytes(Preamble \o FrameBits(0, 1, 2, <<Sub0>>, TRUE), 42 + k) :
             k \in 0..12 }

FrameInputs ==
    OneChannelInputs \cup ChecksumInputs \cup TwoChannelInputs \cup StreamInputs

Inputs == MetaInputs \cup HeaderInputs \cup FrameInputs

----------------------------------------------------------------------------
(* The decoder as a state machine.                                         *)

NoResult == [op |-> "", from |-> 0, err |-> "", panic |-> FALSE, data |-> <<>>]

Init ==
    /\ src \in Inputs
    /\ off = 0
    /\ pc = "start"
    /\ d = [n |-> 0, StreamInfo |-> <<>>, VorbisComment |-> <<>>]
    /\ ret = NoResult
    /\ h = HeaderErr("", 0)
    /\ arg = <<>>
    /\ res = <<>>

\* NewDecoder returns r: a decoder, or nil and an error, unless it panics.
newDecoderReturn(r) ==
    /\ ret' = [op |-> "NewDecoder", from |-> off, err |-> r.err,
               panic |-> r.panic, data |-> <<>>]
    /\ pc' = IF r.panic THEN "panic" ELSE IF r.err # "" THEN "failed" ELSE "ready"
    /\ d' = IF r.panic \/ r.err # "" THEN d
            ELSE [n |-> 0, StreamInfo |-> r.meta.StreamInfo,
                  VorbisComment |-> r.meta.VorbisComment]
    /\ off' = r.pos

\* d, err := NewDecoder(r)
NewDecoder ==
    /\ pc = "start"
    /\ newDecoderReturn(NewDecoderResult(src, off))
    /\ UNCHANGED <<src, h, arg, res>>

\* Next returns r, having started at position off.
nextReturn(r) ==
    /\ ret' = [op |-> "Next", from |-> off, err |-> r.err, panic |-> r.panic,
               data |-> r.data]
    /\ h' = r.hr
    /\ off' = r.pos
    /\ pc' = IF r.panic THEN "panic" ELSE "ready"

\* A variant of DecoderNext that counts the decoded frames: d.n++ at the
\* return of the data only.
DecoderNextCountsFrames ==
    /\ pc = "ready"
    /\ d.n < MaxCalls
    /\ nextReturn(NextResult(src, off, d.StreamInfo[1]))
    /\ d' = IF ret'.panic \/ ret'.err # "" THEN d ELSE [d EXCEPT !.n = @ + 1]
    /\ UNCHANGED <<src, arg, res>>

\* data, err := d.Next(); the deferred d.n++ runs however Next ends.
DecoderNext ==
    /\ pc = "ready"
    /\ d.n < MaxCalls
    /\ nextReturn(NextResult(src, off, d.StreamInfo[1]))
    /\ d' = [d EXCEPT !.n = @ + 1]
    /\ UNCHANGED <<src, arg, res>>

Next == NewDecoder \/ DecoderNext

Spec == Init /\ [][Next]_vars

----------------------------------------------------------------------------
(* The properties.  They read the last call's result (ret, h), the decoder *)
(* (d) and the bits of the input themselves: ret.from is where the last    *)
(* call started reading.                                                   *)

\* Next has returned sample buffers and no error.
NextReturnedData == ret.op = "Next" /\ ~ret.panic /\ ret.err = ""

\* NewDecoder has returned a decoder (d is set then, and only then).
DecoderReturned == d.StreamInfo # <<>>

\* Next has been called with at least the four fixed bytes of a frame
\* header left in the input.
FixedBytesRead == ret.op = "Next" /\ Len(src) >= ret.from + 32

\* The fixed fields of the frame header the last call of Next read, as the
\* bits of the input give them.
RawSync == Val(src, ret.from, 14)
RawReserved == src[ret.from + 15] + src[ret.from + 32]
RawBlockSize == Val(src, ret.from + 16, 4)
RawSampleRate == Val(src, ret.from + 20, 4)
RawChannels == Val(src, ret.from + 24, 4)
RawSampleSize == Val(src, ret.from + 28, 3)

\* The lengths in bits of the tails the codes call for, and where the
\* tails start in a header that was read to its end (h.pos).
BlockSizeTailBits ==
    IF RawBlockSize = 6 THEN 8 ELSE IF RawBlockSize = 7 THEN 16 ELSE 0
SampleRateTailBits ==
    IF RawSampleRate = 12 THEN 8 ELSE IF RawSampleRate \in {13, 14} THEN 16 ELSE 0
SampleRateTailAt == h.pos - 8 - SampleRateTailBits
BlockSizeTailAt == SampleRateTailAt - BlockSizeTailBits

\* C1: every call of Next that returns without error returns one buffer per
\* channel, each of exactly the block size of the frame's header, whatever
\* the subframe kinds, the partition orders and the block size.
C1_BuffersHaveBlockSize ==
    NextReturnedData =>
        /\ Len(ret.data) = (IF RawChannels < 8 THEN RawChannels + 1 ELSE 2)
        /\ \A c \in 1..Len(ret.data) : Len(ret.data[c]) = h.h.blockSize

\* C2: every sample Next returns without error lies in
\* [-2^(bps-1), 2^(bps-1)-1], bps being the decoder's StreamInfo.BitsPerSample.
C2_SamplesFitBitsPerSample ==
    NextReturnedData =>
        \A c \in 1..Len(ret.data) : \A i \in 1..Len(ret.data[c]) :
            /\ ret.data[c][i] >= -(2 ^ (d.StreamInfo[1].BitsPerSample - 1))
            /\ ret.data[c][i] <= 2 ^ (d.StreamInfo[1].BitsPerSample - 1) - 1

\* C3: NewDecoder returns a decoder or an error for every input; it never
\* panics.
C3_NewDecoderNeverPanics == ~(ret.op = "NewDecoder" /\ ret.panic)

\* C4: Next returns buffers, an error or the end of the stream; it never
\* panics, whatever follows the metadata.
C4_NextNeverPanics == ~(ret.op = "Next" /\ ret.panic)

\* C5: Next returns io.EOF exactly when no byte of the next frame header is
\* left; when the input ends after one or more bytes of the frame, the error
\* is another one.
C5_EOFOnlyAtFrameBoundary ==
    ret.op = "Next" => (ret.err = "EOF" <=> ret.from >= Len(src))

\* C6: NewDecoder returns a decoder only if the first metadata block (the 7
\* bits after the magic and the last flag) is STREAMINFO, and never without
\* any STREAMINFO block.
C6_StreamInfoFirst ==
    /\ DecoderReturned => Val(src, 33, 7) = 0
    /\ ret.err = "Missing STREAMINFO header" => ~DecoderReturned

\* C7: the StreamInfo of a decoder NewDecoder returns has SampleRate > 0,
\* NChannels in 1..8 and BitsPerSample in 4..32.
C7_StreamInfoInRange ==
    DecoderReturned =>
        /\ d.StreamInfo[1].SampleRate > 0
        /\ d.StreamInfo[1].NChannels \in 1..8
        /\ d.StreamInfo[1].BitsPerSample \in 4..32

\* The error the first four checks of the fixed fields call for, "" when
\* they all pass: sync code, reserved bits, channel assignment, sample size.
FieldError ==
    IF RawSync # 16382
    THEN "Failed to find the synchronize code for the next frame"
    ELSE IF RawReserved # 0 THEN "Invalid reserved value in frame header"
    ELSE IF RawChannels > 10 THEN "Bad channel assignment"
    ELSE IF RawSampleSize \in {3, 7} THEN "Bad sample size in frame header"
    ELSE ""

\* The number after the fixed fields is one byte (0xxxxxxx).
OneByteNumber ==
    /\ Len(src) >= ret.from + 40
    /\ Val(src, ret.from + 32, 8) < 128

\* The number after the fixed fields starts as two bytes (110xxxxx) and its
\* second byte is no continuation byte (10xxxxxx).
BadTwoByteNumber ==
    /\ Len(src) >= ret.from + 48
    /\ Val(src, ret.from + 32, 8) \div 32 = 6
    /\ Val(src, ret.from + 40, 8) \div 64 # 2

\* C8: readFrameHeader reports the first check that fails, in the order sync
\* code, reserved bits, channel assignment, sample size, UTF-8 number, block
\* size, CRC-8; "Bad checksum" is reported only when all the checks of the
\* fields pass.
C8_FirstFailingCheck ==
    FixedBytesRead =>
        /\ FieldError # "" => h.err = FieldError
        /\ (FieldError = "" /\ BadTwoByteNumber)
               => h.err = "Bad UTF-8 encoding in frame header"
        /\ (FieldError = "" /\ OneByteNumber /\ RawBlockSize = 0)
               => h.err = "Bad block size in frame header"
        /\ h.err = "Bad checksum"
               => (h.ok /\ FieldError = "" /\ RawBlockSize # 0)
        /\ h.err # "" => ret.err \in {"EOF", "Failed to read the frame header: " \o h.err}

\* A header with a channel assignment above 10, a sample-size code of 3 or
\* 7, a block-size code of 0 and a wrong CRC-8 byte (6 bytes, the number
\* being one byte) has been read, and the channel assignment was reported.
C8_Witness ==
    /\ FixedBytesRead
    /\ RawSync = 16382 /\ RawReserved = 0
    /\ RawChannels > 10 /\ RawSampleSize \in {3, 7} /\ RawBlockSize = 0
    /\ OneByteNumber
    /\ Len(src) >= ret.from + 48
    /\ crc(src, ret.from, ret.from + 40, 8, 7) # Val(src, ret.from + 40, 8)
    /\ ret.err = "Failed to read the frame header: Bad channel assignment"

\* The block sizes of the codes 1..5 and 8..15 (at code + 1).
SpecifiedBlockSizes ==
    <<0, 192, 576, 1152, 2304, 4608, 0, 0,
      256, 512, 1024, 2048, 4096, 8192, 16384, 32768>>

\* C9: a header readFrameHeader returns has the block size its code stands
\* for: the 8-bit tail plus 1 for code 6, the 16-bit tail plus 1 for code 7,
\* the table's value otherwise (32768 for code 15); code 0 is rejected; the
\* block size is in 1..65536.
C9_BlockSizeOfCode ==
    (ret.op = "Next" /\ h.ok) =>
        /\ RawBlockSize # 0
        /\ h.h.blockSize \in 1..65536
        /\ h.h.blockSize =
               (IF RawBlockSize = 6 THEN Val(src, BlockSizeTailAt, 8) + 1
                ELSE IF RawBlockSize = 7 THEN Val(src, BlockSizeTailAt, 16) + 1
                ELSE SpecifiedBlockSizes[RawBlockSize + 1])

\* The sample rates of the codes 1..11 (at code + 1).
SpecifiedSampleRates ==
    <<0, 88200, 176400, 192000, 8000, 16000, 22050, 24000,
      32000, 44100, 48000, 96000, 0, 0, 0, 0>>

\* C10: a header readFrameHeader returns has the sample rate in Hz its code
\* stands for: StreamInfo's for code 0, the 8-bit tail in kHz for code 12,
\* the 16-bit tail for code 13, ten times the 16-bit tail for code 14, the
\* table's value otherwise; code 15 is rejected; the rate is never negative.
C10_SampleRateOfCode ==
    (ret.op = "Next" /\ h.ok) =>
        /\ RawSampleRate # 15
        /\ h.h.sampleRate >= 0
        /\ h.h.sampleRate =
               (IF RawSampleRate = 0 THEN d.StreamInfo[1].SampleRate
                ELSE IF RawSampleRate = 12
                THEN 1000 * Val(src, SampleRateTailAt, 8)
                ELSE IF RawSampleRate = 13 THEN Val(src, SampleRateTailAt, 16)
                ELSE IF RawSampleRate = 14
                THEN 10 * Val(src, SampleRateTailAt, 16)
                ELSE SpecifiedSampleRates[RawSampleRate + 1])

\* C18: the frame counter d.n is 0 when NewDecoder returns the decoder and
\* every call of Decoder.Next adds exactly one to it, whether the call
\* returns data, an error or the end of the stream, or panics; so it equals
\* the number of calls and never decreases.
C18_CounterCountsCalls ==
    [][/\ (pc = "start" /\ pc' = "ready") => d'.n = 0
       /\ pc = "ready" => (ret'.op = "Next" /\ d'.n = d.n + 1)
       /\ d'.n >= d.n]_vars

\* Two calls of Next have been made and the second returned an error that
\* is not the end of the stream: the counter is 2 with at most one frame
\* decoded.
C18_Witness ==
    /\ d.n = 2
    /\ ret.op = "Next" /\ ret.from > Len(Preamble)
    /\ ret.err # "" /\ ret.err # "EOF" /\ ~ret.panic
\* The first subframe of the frame the last call of Next read, as the bits
\* of the input give it: the type code, the wasted-bits flag, the number of
\* zero bits after the flag up to the terminating 1.
RawSubFrameCode == Val(src, h.pos + 1, 6)
RawWastedFlag == src[h.pos + 8]

RECURSIVE ZeroRun(_, _)
ZeroRun(s, pos) ==
    IF pos >= Len(s) \/ s[pos + 1] = 1 THEN 0 ELSE 1 + ZeroRun(s, pos + 1)

\* w: 0 when the flag is 0, else the zero bits before the terminating 1,
\* plus one.
RawWasted == IF RawWastedFlag = 0 THEN 0 ELSE ZeroRun(src, h.pos + 8) + 1

\* Stored sample j (from 1) of the first subframe: a signed value of the
\* sample size less w bits, after the wasted-bits prefix.
StoredSample(j) ==
    signExtend(Val(src, h.pos + 8 + RawWasted + (j - 1) * (h.h.sampleSize - RawWasted),
                   h.h.sampleSize - RawWasted),
               h.h.sampleSize - RawWasted)

\* C11: the samples Next returns for a CONSTANT or VERBATIM subframe with w
\* wasted bits are the stored values, read with the sample size less w bits,
\* shifted left by w; all samples of a CONSTANT subframe are v << w.
C11_WastedBitsShift ==
    (NextReturnedData /\ RawChannels = 0
         /\ RawSubFrameCode \in {subFrameConstant, subFrameVerbatim}) =>
        \A j \in 1..Len(ret.data[1]) :
            ret.data[1][j] =
                StoredSample(IF RawSubFrameCode = subFrameConstant THEN 1 ELSE j)
                    * (2 ^ RawWasted)

----------------------------------------------------------------------------
(* Functions of the decoder called on their own: arg is what the caller    *)
(* has in hand (the values an encoder was given), res what the function    *)
(* returned.  The decoder's own variables stay as they are at the start.   *)

Idle ==
    /\ off = 0
    /\ pc = "call"
    /\ d = [n |-> 0, StreamInfo |-> <<>>, VorbisComment |-> <<>>]
    /\ ret = NoResult
    /\ h = HeaderErr("", 0)
    /\ res = <<>>

\* The largest magnitude of the small samples of the stereo pairs.
MaxSmall == 2

\* The least and the greatest sample of bps bits, and the samples tried:
\* the ends of the range and the small values.
LowSample(bps) == -(2 ^ (bps - 2)) - 2 ^ (bps - 2)
HighSample(bps) == (2 ^ (bps - 2) - 1) + 2 ^ (bps - 2)
SamplesOf(bps) ==
    {LowSample(bps), LowSample(bps) + 1, HighSample(bps) - 1, HighSample(bps),
     2 ^ (bps - 2), -(2 ^ (bps - 2)) - 1}
    \cup (-MaxSmall)..MaxSmall

\* A stereo pair (L, R) of samples of bps bits under a channel assignment.
StereoArgs ==
    UNION { [assign : 0..midSide, bps : {b}, L : SamplesOf(b), R : SamplesOf(b)] :
              b \in {8, 16, 32} }

\* What an encoder stores for the pair (L, R): the mid channel (L + R) >> 1
\* and the side channel L - R, of which the decoder's int32 keeps the low
\* 32 bits.
StereoMid(L, R) == (L \div 2) + (R \div 2) + ((L % 2) + (R % 2)) \div 2
StereoSide(L, R) == Sub32(L, R)

\* The two samples of each channel that the subframes of a frame give for
\* the pairs (L, R) and (R, L).
StereoData(a) ==
    IF a.assign = leftSide
    THEN <<<<a.L, a.R>>, <<StereoSide(a.L, a.R), StereoSide(a.R, a.L)>>>>
    ELSE IF a.assign = rightSide
    THEN <<<<StereoSide(a.L, a.R), StereoSide(a.R, a.L)>>, <<a.R, a.L>>>>
    ELSE IF a.assign = midSide
    THEN <<<<StereoMid(a.L, a.R), StereoMid(a.R, a.L)>>,
           <<StereoSide(a.L, a.R), StereoSide(a.R, a.L)>>>>
    ELSE [c \in 1..nChannels(a.assign) |->
              IF c % 2 = 1 THEN <<a.L, a.R>> ELSE <<a.R, a.L>>]

FixChannelsInit == arg \in StereoArgs /\ src = <<>> /\ Idle

\* fixChannels(data, h.channelAssignment)
CallFixChannels ==
    /\ pc = "call"
    /\ arg \in StereoArgs
    /\ res' = fixChannels(StereoData(arg), arg.assign)
    /\ pc' = "done"
    /\ UNCHANGED <<src, off, d, ret, h, arg>>

SpecFixChannels == FixChannelsInit /\ [][CallFixChannels]_vars

\* fixChannels has returned for a pair under a stereo assignment.
FixedStereo == pc = "done" /\ arg \in StereoArgs /\ arg.assign >= leftSide

\* C12: fixChannels gives back the pair (L, R) an encoder started from, for
\* left/side, right/side and mid/side and every pair of samples of the
\* frame's sample size; the data of an independent assignment is unchanged.
C12_DecorrelationInverts ==
    (pc = "done" /\ arg \in StereoArgs) =>
        /\ ~res.panic
        /\ res.data = (IF arg.assign >= leftSide
                       THEN <<<<arg.L, arg.R>>, <<arg.R, arg.L>>>>
                       ELSE StereoData(arg))

\* a + b and a - b are int32 values: the 32-bit sum and difference do not
\* wrap.
SumFits(a, b) ==
    IF b >= 0 THEN a <= 2147483647 - b ELSE a >= (-2147483647 - 1) - b
DifferenceFits(a, b) == b # -2147483647 - 1 /\ SumFits(a, -b)

\* m2 = (mid << 1) | (side & 1), for a mid whose double is an int32.
TwiceWithParity(mid, side) == 2 * mid + (side % 2)
TwiceFits(mid, side) ==
    /\ mid >= -1073741824 /\ mid <= 1073741823
    /\ SumFits(TwiceWithParity(mid, side), side)
    /\ DifferenceFits(TwiceWithParity(mid, side), side)

\* C15: in mid/side reconstruction, with m2 = (mid << 1) | (side & 1), both
\* m2 + side and m2 - side are even and fixChannels's division by 2 gives
\* left = (m2 + side) >> 1 and right = (m2 - side) >> 1, the arithmetic
\* shift, for negative operands too, wherever the 32-bit sums do not wrap.
C15_HalfIsShift ==
    (pc = "done" /\ arg \in StereoArgs /\ arg.assign = midSide) =>
        \A i \in 1..2 :
            TwiceFits(StereoData(arg)[1][i], StereoData(arg)[2][i]) =>
                /\ (TwiceWithParity(StereoData(arg)[1][i], StereoData(arg)[2][i])
                        + StereoData(arg)[2][i]) % 2 = 0
                /\ (TwiceWithParity(StereoData(arg)[1][i], StereoData(arg)[2][i])
                        - StereoData(arg)[2][i]) % 2 = 0
                /\ res.data[1][i] =
                       (TwiceWithParity(StereoData(arg)[1][i], StereoData(arg)[2][i])
                            + StereoData(arg)[2][i]) \div 2
                /\ res.data[2][i] =
                       (TwiceWithParity(StereoData(arg)[1][i], StereoData(arg)[2][i])
                            - StereoData(arg)[2][i]) \div 2

\* fixChannels has returned for mid = -2 and side = -1 (the pair L = -2,
\* R = -1) and for mid = -2 and side = 1: odd sides, negative sums.
C15_Witness ==
    /\ FixedStereo /\ arg.assign = midSide
    /\ StereoData(arg) = <<<<-2, -2>>, <<-1, 1>>>>
    /\ TwiceFits(-2, -1) /\ TwiceFits(-2, 1)
    /\ res.data = <<<<-2, -1>>, <<-1, -2>>>>

----------------------------------------------------------------------------
(* utf8Decode on the encodings of numbers.  A number of up to 36 bits is   *)
(* the pair <<hi, lo>> of its two halves of 18 bits.                       *)

Utf8Values ==
    { <<hi, lo>> : hi \in {0, 1, 7, 8, 255, 256, 8191, 8192, 262143},
                   lo \in {0, 1, 127, 128, 2047, 2048, 65535, 65536, 262143} }

\* The number of bytes of the encoding of v: the least that holds it, the
\* forms of 1..7 bytes holding 7, 11, 16, 21, 26, 31 and 36 bits.
Utf8Len(v) ==
    IF v[1] = 0 /\ v[2] < 128 THEN 1
    ELSE IF v[1] = 0 /\ v[2] < 2048 THEN 2
    ELSE IF v[1] = 0 /\ v[2] < 65536 THEN 3
    ELSE IF v[1] < 8 THEN 4
    ELSE IF v[1] < 256 THEN 5
    ELSE IF v[1] < 8192 THEN 6
    ELSE 7

\* The extended UTF-8 encoding of v: a lead byte of n ones, a zero and the
\* first bits of the number (0xxxxxxx when n is 1), then n - 1 bytes
\* 10xxxxxx of 6 bits each.
Utf8Encode(v) ==
    LET n    == Utf8Len(v)
        all  == Bits(v[1], 18) \o Bits(v[2], 18)
        lead == IF n = 1 THEN 7 ELSE 7 - n
        pay  == SubSeq(all, 36 - (lead + 6 * (n - 1)) + 1, 36)
    IN  (IF n = 1 THEN <<0>> ELSE [i \in 1..n |-> 1] \o <<0>>)
        \o SubSeq(pay, 1, lead)
        \o Cat([k \in 1..(n - 1) |->
                   <<1, 0>> \o SubSeq(pay, lead + 6 * (k - 1) + 1, lead + 6 * k)])

\* The encoding of the number and, after it, one more byte of the header.
Utf8Init == arg \in Utf8Values /\ src = Utf8Encode(arg) \o Bits(165, 8) /\ Idle

\* h.number, err = utf8Decode(br)
CallUtf8Decode ==
    /\ pc = "call"
    /\ arg \in Utf8Values
    /\ res' = utf8Decode(src, 0)
    /\ pc' = "done"
    /\ UNCHANGED <<src, off, d, ret, h, arg>>

SpecUtf8Decode == Utf8Init /\ [][CallUtf8Decode]_vars

\* C13: utf8Decode returns the number that was encoded, without error, and
\* consumes exactly the bytes of the encoding, for the forms of 1..7 bytes.
C13_Utf8DecodeInverts ==
    (pc = "done" /\ arg \in Utf8Values) =>
        /\ res.err = ""
        /\ res.pos = 8 * Utf8Len(arg)
        /\ res.v \div 262144 = arg[1]
        /\ res.v % 262144 = arg[2]

----------------------------------------------------------------------------
(* predict on coefficients, warm-up samples and residuals.                 *)

\* The largest predictor order and the most residuals of the calls of
\* predict.
MaxPredO == 2
MaxResiduals == 2

\* Coefficients of 15 bits, samples of 24 bits, residuals, shifts.
CoeffsTried == {-16384, 2, 16383}
WarmTried == {-8388608, 3, 8388607}
ResidualsTried == {-5, 0, 7}
ShiftsTried == {0, 1, 14, 15}

\* The sequences over S of length n.
SeqsOf(S, n) == [1..n -> S]

\* The calls of predict: the large coefficients go with the shifts that
\* bring the prediction back to the size of a sample, as an encoder
\* chooses them.
PredictArgs ==
    { a \in UNION { [coeffs : SeqsOf(CoeffsTried, o), warm : SeqsOf(WarmTried, o),
                     residual : SeqsOf(ResidualsTried, r), shift : ShiftsTried] :
                      o \in 1..MaxPredO, r \in 1..MaxResiduals } :
        a.shift >= 14 \/ \A i \in 1..Len(a.coeffs) : a.coeffs[i] = 2 }

PredictInit == arg \in PredictArgs /\ src = <<>> /\ Idle

\* predict(coeffs, warm, residual, shift)
CallPredict ==
    /\ pc = "call"
    /\ arg \in PredictArgs
    /\ res' = predict(arg.coeffs, arg.warm, arg.residual, arg.shift)
    /\ pc' = "done"
    /\ UNCHANGED <<src, off, d, ret, h, arg>>

SpecPredict == PredictInit /\ [][CallPredict]_vars

\* Exact integers of more than 32 bits: the pair <<hi, lo>> stands for
\* hi * 2^16 + lo, with lo in 0..65535.
ExactOf(x) == <<x \div 65536, x % 65536>>
ExactAdd(p, q) ==
    <<p[1] + q[1] + (p[2] + q[2]) \div 65536, (p[2] + q[2]) % 65536>>
\* c * p for a coefficient c of 15 bits.
ExactMul(c, p) == <<c * p[1] + (c * p[2]) \div 65536, (c * p[2]) % 65536>>
\* p >> s, arithmetic, for s in 0..16.
ExactShr(p, s) ==
    <<p[1] \div (2 ^ s), (p[1] % (2 ^ s)) * (2 ^ (16 - s)) + p[2] \div (2 ^ s)>>

RECURSIVE RefSum(_, _, _, _)
\* The full sum over the coefficients from j on of C[j] * D[i - j].
RefSum(C, D, i, j) ==
    IF j > Len(C) THEN <<0, 0>>
    ELSE ExactAdd(ExactMul(C[j], D[i - j]), RefSum(C, D, i, j + 1))

RECURSIVE RefPredict(_, _, _, _)
\* The reference: D, extended by D[i] = R[i - p] + (sum >> s) for every
\* residual, computed without overflow.
RefPredict(C, D, R, s) ==
    IF Len(D) >= Len(C) + Len(R) THEN D
    ELSE RefPredict(C,
                    Append(D, ExactAdd(ExactOf(R[Len(D) + 1 - Len(C)]),
                                       ExactShr(RefSum(C, D, Len(D) + 1, 1), s))),
                    R, s)

\* C14: predict returns the warm-up samples followed by
\* D[i] = R[i - p] + (sum >> s), sum being the full sum of C[j] * D[i-j-1]
\* computed without overflow and >> an arithmetic shift.
C14_PredictIsReference ==
    (pc = "done" /\ arg \in PredictArgs) =>
        /\ Len(res) = Len(arg.warm) + Len(arg.residual)
        /\ [i \in 1..Len(res) |-> ExactOf(res[i])]
               = RefPredict(arg.coeffs, [i \in 1..Len(arg.warm) |-> ExactOf(arg.warm[i])],
                            arg.residual, arg.shift)

----------------------------------------------------------------------------
(* riceDecode on the Rice codes of signed numbers.                         *)

\* The most numbers of one call of riceDecode.
MaxRice == 2

\* The Rice parameters: M is read from 4 or 5 bits and the all-ones value
\* is refused by decodeResiduals.
RiceParameters == 0..30

\* The numbers encoded with parameter M: the small ones and the two whose
\* zig-zag form has M + 1 bits, the largest unary part being 1 for them.
RiceTried(M) == (-MaxSmall..MaxSmall) \cup {-(2 ^ M), 2 ^ M - 1}

RiceArgs ==
    UNION {UNION {[M : {M}, values : SeqsOf(RiceTried(M), n)] : n \in 0..MaxRice}
               : M \in RiceParameters}

\* The zig-zag form of v: 0, -1, 1, -2, ... are 0, 1, 2, 3, ...
ZigZag(v) == IF v >= 0 THEN 2 * v ELSE 2 * (-v - 1) + 1

\* The Rice code of v: the quotient of its zig-zag form by 2^M in unary
\* (0 bits, then a 1), then the remainder in M bits.
RiceCode(v, M) ==
    Zeros(ZigZag(v) \div (2 ^ M)) \o <<1>> \o Bits(ZigZag(v) % (2 ^ M), M)

RiceEncode(values, M) == Cat([i \in 1..Len(values) |-> RiceCode(values[i], M)])

\* The codes of the numbers and, after them, one more code and a byte.
RiceInit ==
    /\ arg \in RiceArgs
    /\ src = RiceEncode(arg.values, arg.M) \o <<0, 1>> \o Bits(165, 8)
    /\ Idle

\* r, err := riceDecode(br, n, uint(M))
CallRiceDecode ==
    /\ pc = "call"
    /\ arg \in RiceArgs
    /\ res' = riceDecode(src, 0, Len(arg.values), arg.M)
    /\ pc' = "done"
    /\ UNCHANGED <<src, off, d, ret, h, arg>>

SpecRiceDecode == RiceInit /\ [][CallRiceDecode]_vars

\* C16: riceDecode with parameter M returns exactly the n numbers that
\* were encoded (q zero bits, a 1 bit, M bits r; u = (q << M) | r; the
\* number is (u >> 1) XOR -(u AND 1)) and consumes q + 1 + M bits for each,
\* for every M in 0..30.
C16_RiceDecodeInverts ==
    (pc = "done" /\ arg \in RiceArgs) =>
        /\ res.err = "" /\ ~res.panic
        /\ res.ns = arg.values
        /\ res.pos = Len(RiceEncode(arg.values, arg.M))
        /\ \A i \in 1..Len(arg.values) :
               Len(RiceCode(arg.values[i], arg.M))
                   = ZigZag(arg.values[i]) \div (2 ^ arg.M) + 1 + arg.M

\* riceDecode has returned two numbers, the first negative with a unary
\* part of more than one 0 bit, the second with a first bit of 1.
C16_Witness ==
    /\ pc = "done" /\ arg \in RiceArgs
    /\ arg.M = 0 /\ arg.values = <<-2, 0>>
    /\ src = <<0, 0, 0, 1, 1>> \o <<0, 1>> \o Bits(165, 8)
    /\ res.ns = <<-2, 0>> /\ res.pos = 5

----------------------------------------------------------------------------
(* readSubFrameHeader on every subframe type code.                         *)

\* The largest count of wasted bits of the headers.
MaxWasted == 1

\* The headers: a padding bit, a type code of 6 bits, a count of wasted
\* bits.
SubHeaderArgs == [pad : {0, 1}, code : 0..63, wasted : 0..MaxWasted]

\* The wasted-bits flag and, when it is set, the count w in unary: w - 1
\* zero bits and a 1.
WastedBits(w) == IF w = 0 THEN <<0>> ELSE <<1>> \o Zeros(w - 1) \o <<1>>

SubHeaderBits(a) == <<a.pad>> \o Bits(a.code, 6) \o WastedBits(a.wasted)

\* The header and, after it, one more byte of the subframe.
SubHeaderInit == arg \in SubHeaderArgs /\ src = SubHeaderBits(arg) \o Bits(165, 8) /\ Idle

\* kind, order, err := readSubFrameHeader(br)
CallReadSubFrameHeader ==
    /\ pc = "call"
    /\ arg \in SubHeaderArgs
    /\ res' = readSubFrameHeader(src, 0)
    /\ pc' = "done"
    /\ UNCHANGED <<src, off, d, ret, h, arg>>

SpecSubFrameHeader == SubHeaderInit /\ [][CallReadSubFrameHeader]_vars

\* The classes of the type code by its bits.
IsConstantCode(k) == k = 0
IsVerbatimCode(k) == k = 1
IsFixedCode(k) == k \in 8..15
IsLPCCode(k) == k \in 32..63
IsReservedCode(k) == k \in 2..3 \/ k \in 4..7 \/ k \in 16..31

\* What the header of a subframe of type code k with w wasted bits is to
\* give.
SpecifiedSubHeader(k, w) ==
    IF IsConstantCode(k)
    THEN [err |-> "", panic |-> FALSE, kind |-> subFrameConstant, order |-> 0,
          pos |-> 7 + Len(WastedBits(w))]
    ELSE IF IsVerbatimCode(k)
    THEN [err |-> "", panic |-> FALSE, kind |-> subFrameVerbatim, order |-> 0,
          pos |-> 7 + Len(WastedBits(w))]
    ELSE IF IsFixedCode(k) /\ k - 8 <= 4
    THEN [err |-> "", panic |-> FALSE, kind |-> subFrameFixed, order |-> k - 8,
          pos |-> 7 + Len(WastedBits(w))]
    ELSE IF IsLPCCode(k)
    THEN [err |-> "", panic |-> FALSE, kind |-> subFrameLPC, order |-> k - 32 + 1,
          pos |-> 7 + Len(WastedBits(w))]
    ELSE [err |-> "Bad subframe type", panic |-> FALSE, kind |-> 0, order |-> 0,
          pos |-> 7]

\* C17: readSubFrameHeader classifies each of the 64 type codes as
\* specified: 000000 CONSTANT, 000001 VERBATIM, 001xxx FIXED of order xxx
\* for xxx in 0..4 and the bad-subframe-type error for xxx in 5..7, 1xxxxx
\* LPC of order xxxxx + 1, and 00001x, 0001xx, 01xxxx the bad-subframe-type
\* error; the classes cover every code and the panic is never taken.
C17_SubFrameTypeCodes ==
    /\ \A k \in 0..63 :
           IsConstantCode(k) \/ IsVerbatimCode(k) \/ IsFixedCode(k)
               \/ IsLPCCode(k) \/ IsReservedCode(k)
    /\ (pc = "done" /\ arg \in SubHeaderArgs) =>
           /\ ~res.panic
           /\ res = SpecifiedSubHeader(arg.code, arg.wasted)

\* readSubFrameHeader has returned for the code 001101, a fixed predictor
\* of order 5: the bad-subframe-type error.
C17_Witness ==
    /\ pc = "done" /\ arg \in SubHeaderArgs
    /\ arg.code = 13
    /\ res.err = "Bad subframe type" /\ ~res.panic
====
